---- MODULE Spec2Model ----
(***************************************************************************)
(* A model of the Go structure extractor in src/uml: Generate, parseDir,   *)
(* extractPackage, sortPackage, receiverBaseName, kindForTypeSpec and the  *)
(* moduleLocator.                                                          *)
(*                                                                         *)
(* Strings that the code only compares for equality are TLA+ strings.      *)
(* Strings the code orders (sort.Slice / sort.Strings) are ranked by       *)
(* Alphabet, the bytes that occur in the model in ascending order.         *)
(* Syntax trees are records; an expression is the sequence of its nodes    *)
(* from the outermost one to the leaf.                                     *)
(***************************************************************************)
EXTENDS Integers, Sequences, FiniteSets, TLC

VARIABLES
    pc,           \* position of the run being modelled
    pkgFiles,     \* pkg.Files of extractPackage: file name -> its declarations
    pkgModel,     \* the Package under construction in extractPackage
    typesByName,  \* extractPackage's map name -> index into pkgModel.Types (0: absent)
    todoTypes,    \* files the first range loop (generate.go:191) has not visited yet
    todoFuncs,    \* files the second range loop (generate.go:221) has not visited yet
    goMod,        \* the file system: directory -> its go.mod file
    cache,        \* moduleLocator.cache: directory -> cached module
    query,        \* the last moduleForDir call on the locator and what it returned
    dirFiles,     \* the file system: directory -> its files, in name order
    request,      \* the arguments of the GenerateJSON call: root and options
    result,       \* what the GenerateJSON call returned
    candidate,    \* a file offered to the filter of parseDir, with onlyFile and opts
    included      \* what the filter returned for the candidate

extractVars == <<pkgFiles, pkgModel, typesByName, todoTypes, todoFuncs>>

locVars == <<goMod, cache, query>>

genVars == <<dirFiles, request, result>>

filterVars == <<candidate, included>>

vars == <<pc, extractVars, locVars, genVars, filterVars>>

----------------------------------------------------------------------------
(* Bounds of the inputs.                                                   *)

\* Declarations in one package (over all its files).
MaxDecls == 3

\* Nesting depth of a receiver expression above its leaf.
MaxNest == 3

\* Members of a struct's field list or an interface's method list.
MaxMembers == 2

\* Files of the package under extraction, in ascending name order.
FileList == <<"a.go", "b.go">>

FileNames == {FileList[i] : i \in DOMAIN FileList}

\* The directories of the file system.
Dirs == {"/", "/app", "/app/pkg", "/app/vendor", "/app/vendor/lib"}

\* Directories that hold files in one file system.
MaxPopulated == 2

\* Identifiers that may name a type.
TypeNames == {"A", "B", "C", "T"}

----------------------------------------------------------------------------
(* Go strings.  A string is compared byte by byte; Alphabet lists the bytes *)
(* that occur in the model in ascending order.                             *)

Alphabet ==
    << "\t", " ", "*", ".", "/", "0", "1", "2", "A", "B", "C", "D", "E", "G", "I", "K",
       "M", "N", "O", "R", "T", "V", "X", "Y", "_", "a", "b", "c", "d", "e", "f", "g",
       "h", "i", "k", "l", "m", "n", "o", "p", "r", "s", "t", "u", "v", "x", "y", "z" >>

RankOf == [c \in {Alphabet[i] : i \in DOMAIN Alphabet} |->
              CHOOSE i \in 1..Len(Alphabet) : Alphabet[i] = c]

CharRank(c) == RankOf[c]

CharAt(s, i) == SubSeq(s, i, i)

RECURSIVE StrLessFrom(_, _, _)
StrLessFrom(a, b, i) ==
    IF i > Len(b) THEN FALSE
    ELSE IF i > Len(a) THEN TRUE
    ELSE IF CharAt(a, i) = CharAt(b, i) THEN StrLessFrom(a, b, i + 1)
    ELSE CharRank(CharAt(a, i)) < CharRank(CharAt(b, i))

\* Go's < on strings.
StrLess(a, b) == StrLessFrom(a, b, 1)

\* strings.HasPrefix, strings.HasSuffix, strings.TrimPrefix, strings.Contains.
HasPrefix(s, p) == Len(s) >= Len(p) /\ SubSeq(s, 1, Len(p)) = p

HasSuffix(s, p) == Len(s) >= Len(p) /\ SubSeq(s, Len(s) - Len(p) + 1, Len(s)) = p

TrimPrefix(s, p) == IF HasPrefix(s, p) THEN SubSeq(s, Len(p) + 1, Len(s)) ELSE s

Contains(s, sub) ==
    \E i \in 1..(Len(s) + 1) : i + Len(sub) - 1 <= Len(s) /\ SubSeq(s, i, i + Len(sub) - 1) = sub

\* strings.TrimSpace, for the white space of the model: space and tab.
IsSpace(c) == c \in {" ", "\t"}

RECURSIVE TrimLeft(_)
TrimLeft(s) ==
    IF Len(s) > 0 /\ IsSpace(CharAt(s, 1)) THEN TrimLeft(SubSeq(s, 2, Len(s))) ELSE s

RECURSIVE TrimRight(_)
TrimRight(s) ==
    IF Len(s) > 0 /\ IsSpace(CharAt(s, Len(s))) THEN TrimRight(SubSeq(s, 1, Len(s) - 1)) ELSE s

TrimSpace(s) == TrimRight(TrimLeft(s))

----------------------------------------------------------------------------
(* path/filepath on clean absolute slash-separated paths.                  *)

\* The index of the last "/" at or before index i of p.
RECURSIVE LastSlashFrom(_, _)
LastSlashFrom(p, i) == IF CharAt(p, i) = "/" THEN i ELSE LastSlashFrom(p, i - 1)

LastSlash(p) == LastSlashFrom(p, Len(p))

\* filepath.Dir: the parent of "/" is "/".
PathDir(p) == IF LastSlash(p) = 1 THEN "/" ELSE SubSeq(p, 1, LastSlash(p) - 1)

\* filepath.Base.
PathBase(p) == IF p = "/" THEN "/" ELSE SubSeq(p, LastSlash(p) + 1, Len(p))

\* filepath.Join(dir, name): name may itself begin with "/".
PathJoin(dir, name) ==
    LET n == TrimPrefix(name, "/")
    IN  IF dir = "/" THEN "/" \o n ELSE dir \o "/" \o n

\* filepath.Rel(base, target).  Every call of the code has target at or below
\* base; any other target would need ".." elements, which are not modelled
\* and reported as an error.
PathRel(base, target) ==
    IF target = base THEN [rel |-> ".", err |-> FALSE]
    ELSE IF base = "/" THEN [rel |-> SubSeq(target, 2, Len(target)), err |-> FALSE]
    ELSE IF HasPrefix(target, base \o "/")
    THEN [rel |-> SubSeq(target, Len(base) + 2, Len(target)), err |-> FALSE]
    ELSE [rel |-> "", err |-> TRUE]

toRelPath(baseDir, path) ==
    LET ToSlash(r) == IF r.err THEN path ELSE r.rel
    IN  ToSlash(PathRel(baseDir, path))

Count(seq, x) == Cardinality({i \in DOMAIN seq : seq[i] = x})

----------------------------------------------------------------------------
(* sort.Slice and sort.Strings.  For the slice lengths of this model (at   *)
(* most 12 elements) Go's sort runs insertion sort: element i moves left   *)
(* while it is less than its left neighbour.                               *)

RECURSIVE InsertByName(_, _)
InsertByName(s, x) ==
    IF s = <<>> \/ ~StrLess(x.Name, s[Len(s)].Name)
    THEN Append(s, x)
    ELSE Append(InsertByName(SubSeq(s, 1, Len(s) - 1), x), s[Len(s)])

RECURSIVE SortByName(_)
SortByName(s) ==
    IF s = <<>> THEN <<>>
    ELSE InsertByName(SortByName(SubSeq(s, 1, Len(s) - 1)), s[Len(s)])

RECURSIVE InsertString(_, _)
InsertString(s, x) ==
    IF s = <<>> \/ ~StrLess(x, s[Len(s)])
    THEN Append(s, x)
    ELSE Append(InsertString(SubSeq(s, 1, Len(s) - 1), x), s[Len(s)])

RECURSIVE SortStrings(_)
SortStrings(s) ==
    IF s = <<>> THEN <<>>
    ELSE InsertString(SortStrings(SubSeq(s, 1, Len(s) - 1)), s[Len(s)])

----------------------------------------------------------------------------
(* Syntax: expressions and declarations.                                   *)

Node(op, name) == [op |-> op, name |-> name]

\* The node kinds receiverBaseName unwraps.
Wrappers == {"StarExpr", "IndexExpr", "IndexListExpr", "ParenExpr"}

\* A member of a struct's field list or an interface's method list.
Member(names, type, isFunc) == [names |-> names, type |-> type, isFunc |-> isFunc]

\* ast.TypeSpec: assign is ts.Assign.IsValid(), form the dynamic type of ts.Type.
TypeSpec(name, assign, form, members) ==
    [decl |-> "type", name |-> name, assign |-> assign, form |-> form,
     members |-> members, recv |-> <<>>, sig |-> ""]

\* ast.FuncDecl: recv is fn.Recv.List[0].Type (<<>>: no receiver); sig stands
\* for the rest of the declaration (doc, type parameters, parameters, results).
FuncDecl(name, recv, sig) ==
    [decl |-> "func", name |-> name, assign |-> FALSE, form |-> "",
     members |-> <<>>, recv |-> recv, sig |-> sig]

\* printer.Fprint of a receiver expression, as its tokens.
RECURSIVE exprString(_)
exprString(e) ==
    IF e = <<>> THEN <<>>
    ELSE CASE e[1].op = "Ident"         -> <<e[1].name>>
           [] e[1].op = "SelectorExpr"  -> <<"pkg", ".", e[1].name>>
           [] e[1].op = "StarExpr"      -> <<"*">> \o exprString(Tail(e))
           [] e[1].op = "ParenExpr"     -> <<"(">> \o exprString(Tail(e)) \o <<")">>
           [] e[1].op = "IndexExpr"     -> exprString(Tail(e)) \o <<"[", "K", "]">>
           [] e[1].op = "IndexListExpr" -> exprString(Tail(e)) \o <<"[", "K", ",", "V", "]">>
           [] e[1].op = "ArrayType"     -> <<"[", "]">> \o exprString(Tail(e))
           [] OTHER                     -> <<"?">>

\* receiverBaseName without its *ast.ParenExpr case.
RECURSIVE receiverBaseName_NoParen(_)
receiverBaseName_NoParen(e) ==
    IF e = <<>> THEN ""
    ELSE IF e[1].op = "Ident" THEN e[1].name
    ELSE IF e[1].op \in Wrappers \ {"ParenExpr"} THEN receiverBaseName_NoParen(Tail(e))
    ELSE ""

RECURSIVE receiverBaseName(_)
receiverBaseName(e) ==
    IF e = <<>> THEN ""
    ELSE IF e[1].op = "Ident" THEN e[1].name
    ELSE IF e[1].op \in Wrappers THEN receiverBaseName(Tail(e))
    ELSE ""

\* kindForTypeSpec with the type switch ahead of the alias test.
kindForTypeSpec_SwitchFirst(ts) ==
    IF ts.form = "StructType" THEN "struct"
    ELSE IF ts.form = "InterfaceType" THEN "interface"
    ELSE IF ts.assign THEN "alias"
    ELSE "other"

kindForTypeSpec(ts) ==
    IF ts.assign THEN "alias"
    ELSE IF ts.form = "StructType" THEN "struct"
    ELSE IF ts.form = "InterfaceType" THEN "interface"
    ELSE "other"

----------------------------------------------------------------------------
(* The model entities of model.go (Exported, Doc, TypeParams, Params,      *)
(* Results and Variadic are carried together as Sig).                      *)

Function(name, receiver, sig) == [Name |-> name, Receiver |-> receiver, Sig |-> sig]

Field(name, type) == [Name |-> name, Type |-> type]

RECURSIVE parseStructFields(_)
parseStructFields(list) ==
    IF list = <<>> THEN [out |-> <<>>, embedded |-> <<>>]
    ELSE LET m    == Head(list)
             rest == parseStructFields(Tail(list))
         IN  IF m.names = <<>>
             THEN [rest EXCEPT !.embedded = <<m.type>> \o @]
             ELSE [rest EXCEPT
                     !.out = [i \in 1..Len(m.names) |-> Field(m.names[i], m.type)] \o @]

RECURSIVE parseInterfaceMethods(_)
parseInterfaceMethods(list) ==
    IF list = <<>> THEN [out |-> <<>>, embedded |-> <<>>]
    ELSE LET m    == Head(list)
             rest == parseInterfaceMethods(Tail(list))
         IN  IF m.names = <<>> THEN [rest EXCEPT !.embedded = <<m.type>> \o @]
             ELSE IF Len(m.names) # 1 \/ ~m.isFunc THEN rest
             ELSE [rest EXCEPT !.out = <<Function(m.names[1], <<>>, m.type)>> \o @]

\* The Type built for one type spec (generate.go:202-214).
TypeOf(ts) ==
    LET t == [Name |-> ts.name, Kind |-> kindForTypeSpec(ts),
              Fields |-> <<>>, Embedded |-> <<>>, Methods |-> <<>>]
    IN  IF ts.form = "StructType"
        THEN [t EXCEPT !.Fields   = parseStructFields(ts.members).out,
                       !.Embedded = parseStructFields(ts.members).embedded]
        ELSE IF ts.form = "InterfaceType"
        THEN [t EXCEPT !.Methods  = parseInterfaceMethods(ts.members).out,
                       !.Embedded = parseInterfaceMethods(ts.members).embedded]
        ELSE t

\* The Function built for one function declaration (generate.go:228-243).
FnModel(fn) == Function(fn.name, exprString(fn.recv), fn.sig)

\* The state of extractPackage that the two passes update.
Extraction(pkg, tbn) == [pkg |-> pkg, tbn |-> tbn]

\* AddType that stores the length of Types before the append.
AddType_IndexBeforeAppend(x, ts) ==
    Extraction([x.pkg EXCEPT !.Types = Append(@, TypeOf(ts))],
               [x.tbn EXCEPT ![ts.name] = Len(x.pkg.Types)])

\* Pass 1, one type spec (generate.go:215-216).
AddType(x, ts) ==
    LET types == Append(x.pkg.Types, TypeOf(ts))
    IN  Extraction([x.pkg EXCEPT !.Types = types],
                   [x.tbn EXCEPT ![ts.name] = Len(types)])

\* AddFunc without its final fallback append: a method whose receiver names no
\* declared type is dropped.
AddFunc_DropUnresolved(x, fn) ==
    LET fnModel  == Function(fn.name, exprString(fn.recv), fn.sig)
        recvName == receiverBaseName(fn.recv)
        toFuncs  == Extraction([x.pkg EXCEPT !.Functions = Append(@, fnModel)], x.tbn)
    IN  IF fn.recv = <<>> THEN toFuncs
        ELSE IF recvName = "" THEN toFuncs
        ELSE IF recvName \in DOMAIN x.tbn /\ x.tbn[recvName] # 0
        THEN Extraction([x.pkg EXCEPT !.Types[x.tbn[recvName]].Methods = Append(@, fnModel)],
                        x.tbn)
        ELSE x

\* Pass 2, one function declaration (generate.go:237-254).
AddFunc(x, fn) ==
    LET fnModel  == FnModel(fn)
        recvName == receiverBaseName(fn.recv)
        toFuncs  == Extraction([x.pkg EXCEPT !.Functions = Append(@, fnModel)], x.tbn)
    IN  IF fn.recv = <<>> THEN toFuncs
        ELSE IF recvName = "" THEN toFuncs
        ELSE IF recvName \in DOMAIN x.tbn /\ x.tbn[recvName] # 0
        THEN Extraction([x.pkg EXCEPT !.Types[x.tbn[recvName]].Methods = Append(@, fnModel)],
                        x.tbn)
        ELSE toFuncs

\* The type declarations of one file, in source order (generate.go:192-218).
RECURSIVE FileTypes(_, _)
FileTypes(x, decls) ==
    IF decls = <<>> THEN x
    ELSE FileTypes(IF Head(decls).decl = "type" THEN AddType(x, Head(decls)) ELSE x,
                   Tail(decls))

\* The function declarations of one file, in source order (generate.go:222-255).
RECURSIVE FileFuncs(_, _)
FileFuncs(x, decls) ==
    IF decls = <<>> THEN x
    ELSE FileFuncs(IF Head(decls).decl = "func" THEN AddFunc(x, Head(decls)) ELSE x,
                   Tail(decls))

\* sortPackage without the loop over the Types (generate.go:272-280).
sortPackage_TypesOnly(pkg) ==
    [pkg EXCEPT
       !.Files     = SortStrings(@),
       !.Functions = SortByName(@),
       !.Types     = SortByName(@)]

\* sortPackage (generate.go:261-282).
sortPackage(pkg) ==
    [pkg EXCEPT
       !.Files     = SortStrings(@),
       !.Functions = SortByName(@),
       !.Types     = LET sorted == SortByName(pkg.Types)
                     IN  [i \in 1..Len(sorted) |->
                            [sorted[i] EXCEPT !.Fields   = SortByName(@),
                                              !.Embedded = SortStrings(@),
                                              !.Methods  = SortByName(@)]]]

\* packageFiles (generate.go:478-485): keys are the keys of pkg.Files.
packageFiles(relBase, dir, keys) ==
    SortStrings([i \in 1..Len(keys) |-> toRelPath(relBase, PathJoin(dir, keys[i]))])

\* The Package as extractPackage has it before its first pass (generate.go:167-189).
NewPackage(name, relBase, dir, importPath, keys) ==
    [Name |-> name, ImportPath |-> importPath, Dir |-> toRelPath(relBase, dir),
     Files |-> packageFiles(relBase, dir, keys), Types |-> <<>>, Functions |-> <<>>]

NoTypes == [n \in TypeNames |-> 0]

\* The two range loops of extractPackage over whole files: order1 is the order
\* in which the first loop visits the files, order2 that of the second loop.
RECURSIVE PassTypes(_, _, _)
PassTypes(x, files, order) ==
    IF order = <<>> THEN x
    ELSE PassTypes(FileTypes(x, files[Head(order)]), files, Tail(order))

RECURSIVE PassFuncs(_, _, _)
PassFuncs(x, files, order) ==
    IF order = <<>> THEN x
    ELSE PassFuncs(FileFuncs(x, files[Head(order)]), files, Tail(order))

extractPackage(pkg0, files, order1, order2) ==
    PassFuncs(PassTypes(Extraction(pkg0, NoTypes), files, order1), files, order2).pkg

----------------------------------------------------------------------------
(* The module locator (generate.go:507-572).                               *)

\* A go.mod file: whether it exists, and its lines.
GoModFile(lines) == [exists |-> TRUE, lines |-> lines]

NoGoMod == [exists |-> FALSE, lines |-> <<>>]

\* *Module values and the absence of a cache entry.
Module(path, dir) == [tag |-> "mod", Path |-> path, Dir |-> dir]

NilModule == [tag |-> "nil", Path |-> "", Dir |-> ""]

NotCached == [tag |-> "absent", Path |-> "", Dir |-> ""]

RECURSIVE readModulePath(_)
readModulePath(lines) ==
    IF lines = <<>> THEN [path |-> "", err |-> TRUE]
    ELSE LET line == TrimSpace(Head(lines))
         IN  IF HasPrefix(line, "module ")
             THEN [path |-> TrimSpace(TrimPrefix(line, "module ")), err |-> FALSE]
             ELSE IF HasPrefix(line, "module\t")
             THEN [path |-> TrimSpace(TrimPrefix(line, "module\t")), err |-> FALSE]
             ELSE readModulePath(Tail(lines))

\* fileExists(filepath.Join(dir, "go.mod")).
fileExists(gm, dir) == gm[dir].exists

\* moduleForDir that stores the parent's result under the parent only.
RECURSIVE moduleForDir_NoChain(_, _, _)
moduleForDir_NoChain(gm, ml, dir) ==
    IF ml[dir] # NotCached THEN [mod |-> ml[dir], err |-> FALSE, cache |-> ml]
    ELSE IF fileExists(gm, dir)
    THEN LET Found(r) ==
                 IF r.err THEN [mod |-> NilModule, err |-> TRUE, cache |-> ml]
                 ELSE [mod |-> Module(r.path, dir), err |-> FALSE,
                       cache |-> [ml EXCEPT ![dir] = Module(r.path, dir)]]
         IN  Found(readModulePath(gm[dir].lines))
    ELSE IF PathDir(dir) = dir
    THEN [mod |-> NilModule, err |-> FALSE, cache |-> [ml EXCEPT ![dir] = NilModule]]
    ELSE moduleForDir_NoChain(gm, ml, PathDir(dir))

\* moduleLocator.moduleForDir: the module returned, whether an error was
\* returned instead, and the cache afterwards.
RECURSIVE moduleForDir(_, _, _)
moduleForDir(gm, ml, dir) ==
    IF ml[dir] # NotCached THEN [mod |-> ml[dir], err |-> FALSE, cache |-> ml]
    ELSE IF fileExists(gm, dir)
    THEN LET Found(r) ==
                 IF r.err THEN [mod |-> NilModule, err |-> TRUE, cache |-> ml]
                 ELSE [mod |-> Module(r.path, dir), err |-> FALSE,
                       cache |-> [ml EXCEPT ![dir] = Module(r.path, dir)]]
         IN  Found(readModulePath(gm[dir].lines))
    ELSE IF PathDir(dir) = dir
    THEN [mod |-> NilModule, err |-> FALSE, cache |-> [ml EXCEPT ![dir] = NilModule]]
    ELSE LET Chain(up) ==
                 IF up.err THEN [mod |-> NilModule, err |-> TRUE, cache |-> up.cache]
                 ELSE [mod |-> up.mod, err |-> FALSE,
                       cache |-> [up.cache EXCEPT ![dir] = up.mod]]
         IN  Chain(moduleForDir(gm, ml, PathDir(dir)))

\* newModuleLocator.
newModuleLocator == [d \in Dirs |-> NotCached]

----------------------------------------------------------------------------
(* Options (Options.withDefaults) and the file filter of parseDir.         *)

Options(tests, generated, exclude, indent) ==
    [IncludeTests |-> tests, IncludeGenerated |-> generated,
     ExcludeDirNames |-> exclude, Indent |-> indent]

DefaultExcludeDirNames == <<".git", ".idea", ".vscode", "node_modules", "testdata", "vendor">>

withDefaults(o) ==
    [o EXCEPT !.ExcludeDirNames = IF Len(@) = 0 THEN DefaultExcludeDirNames ELSE @,
              !.Indent          = IF @ = "" THEN "  " ELSE @]

\* A file: its name, the lines it starts with, whether it can be opened,
\* whether it parses, the package name it declares and its declarations.
File(name, lines, readable, parses, pkg, decls) ==
    [name |-> name, lines |-> lines, readable |-> readable, parses |-> parses,
     pkg |-> pkg, decls |-> decls]

\* The number of lines isGeneratedFile reads.
SniffLines == 20

\* isGeneratedFile that scans the whole file.
isGeneratedFile_WholeFile(file) ==
    IF ~file.readable THEN [gen |-> FALSE, err |-> TRUE]
    ELSE [gen |-> \E i \in DOMAIN file.lines :
                     /\ Contains(file.lines[i], "DO NOT EDIT")
                     /\ Contains(file.lines[i], "Code generated"),
          err |-> FALSE]

isGeneratedFile(file) ==
    IF ~file.readable THEN [gen |-> FALSE, err |-> TRUE]
    ELSE [gen |-> \E i \in 1..SniffLines :
                     /\ i <= Len(file.lines)
                     /\ Contains(file.lines[i], "DO NOT EDIT")
                     /\ Contains(file.lines[i], "Code generated"),
          err |-> FALSE]

\* The filter closure of parseDir (generate.go:120-138).
filter(file, onlyFile, opts) ==
    IF ~HasSuffix(file.name, ".go") THEN FALSE
    ELSE IF onlyFile # "" /\ file.name # onlyFile THEN FALSE
    ELSE IF ~opts.IncludeTests /\ HasSuffix(file.name, "_test.go") THEN FALSE
    ELSE IF ~opts.IncludeGenerated
            /\ isGeneratedFile(file) = [gen |-> TRUE, err |-> FALSE] THEN FALSE
    ELSE TRUE

----------------------------------------------------------------------------
(* parseDir (generate.go:119-164).                                         *)

Reverse(s) == [i \in 1..Len(s) |-> s[Len(s) + 1 - i]]

\* The package names of the parsed files, in order of first appearance.
PackageNames(files) ==
    LET F[i \in 0..Len(files)] ==
            IF i = 0 THEN <<>>
            ELSE IF \E j \in 1..(i - 1) : files[j].pkg = files[i].pkg THEN F[i - 1]
            ELSE Append(F[i - 1], files[i].pkg)
    IN  F[Len(files)]

\* ParseDir that puts every parsed file into one package, named by the first.
ParseDir_OnePackage(dir, files, onlyFile, opts) ==
    LET Group(kept, parsed) ==
            [pkgs |-> IF parsed = <<>> THEN <<>>
                      ELSE <<[name |-> parsed[1].pkg, files |-> parsed]>>,
             err  |-> Len(parsed) # Len(kept)]
        Parse(kept) == Group(kept, SelectSeq(kept, LAMBDA f : f.parses))
    IN  Parse(SelectSeq(files, LAMBDA f : filter(f, onlyFile, opts)))

\* parser.ParseDir: the files that pass the filter, grouped by declared
\* package name; the first parse error is returned beside the map.
ParseDir(dir, files, onlyFile, opts) ==
    LET Group(kept, parsed, names) ==
            [pkgs |-> [i \in 1..Len(names) |->
                         [name  |-> names[i],
                          files |-> SelectSeq(parsed, LAMBDA f : f.pkg = names[i])]],
             err  |-> Len(parsed) # Len(kept)]
        Named(kept, parsed) == Group(kept, parsed, PackageNames(parsed))
        Parse(kept) == Named(kept, SelectSeq(kept, LAMBDA f : f.parses))
    IN  Parse(SelectSeq(files, LAMBDA f : filter(f, onlyFile, opts)))

\* ImportPathOf without the relative directory.
ImportPathOf_NoRel(mod, dir) ==
    LET Derive(r) == IF r.err THEN "" ELSE mod.Path
    IN  IF mod = NilModule THEN "" ELSE Derive(PathRel(mod.Dir, dir))

\* The import path of extractPackage (generate.go:176-185).
ImportPathOf(mod, dir) ==
    LET Derive(r) == IF r.err THEN ""
                     ELSE IF r.rel = "." THEN mod.Path
                     ELSE mod.Path \o "/" \o r.rel
    IN  IF mod = NilModule THEN "" ELSE Derive(PathRel(mod.Dir, dir))

\* extractPackage followed by sortPackage for one parsed package.  ord tells
\* for each range loop over a Go map whether it runs in descending key order.
PackageOf(mod, dir, relBase, pkg, ord) ==
    LET Extract(keys) ==
            sortPackage(extractPackage(
                NewPackage(pkg.name, relBase, dir, ImportPathOf(mod, dir), keys),
                [k \in {keys[i] : i \in DOMAIN keys} |->
                    pkg.files[CHOOSE i \in DOMAIN keys : keys[i] = k].decls],
                IF ord.types THEN Reverse(keys) ELSE keys,
                IF ord.funcs THEN Reverse(keys) ELSE keys))
    IN  Extract([i \in 1..Len(pkg.files) |-> PathJoin(dir, pkg.files[i].name)])

\* What parseDir and Generate report: "" is a nil error.
ErrNoGoFiles == "no go files"

parseDir(gm, ml, dir, files, onlyFile, relBase, opts, ord) ==
    LET Extract(order, loc) ==
            IF loc.err THEN [pkgs |-> <<>>, err |-> "no module path", cache |-> loc.cache]
            ELSE [pkgs  |-> [i \in 1..Len(order) |->
                               PackageOf(loc.mod, dir, relBase, order[i], ord)],
                  err   |-> "",
                  cache |-> loc.cache]
        Parsed(parsed) ==
            IF parsed.err THEN [pkgs |-> <<>>, err |-> "parse dir", cache |-> ml]
            ELSE IF Len(parsed.pkgs) = 0
            THEN [pkgs |-> <<>>, err |-> ErrNoGoFiles, cache |-> ml]
            ELSE Extract(IF ord.pkgs THEN Reverse(parsed.pkgs) ELSE parsed.pkgs,
                         moduleForDir(gm, ml, dir))
    IN  Parsed(ParseDir(dir, files, onlyFile, opts))

----------------------------------------------------------------------------
(* Generate and GenerateJSON (generate.go:21-115).                         *)

PkgLess(a, b) ==
    IF a.ImportPath # b.ImportPath THEN StrLess(a.ImportPath, b.ImportPath)
    ELSE IF a.Dir # b.Dir THEN StrLess(a.Dir, b.Dir)
    ELSE StrLess(a.Name, b.Name)

RECURSIVE InsertPackage(_, _)
InsertPackage(s, x) ==
    IF s = <<>> \/ ~PkgLess(x, s[Len(s)])
    THEN Append(s, x)
    ELSE Append(InsertPackage(SubSeq(s, 1, Len(s) - 1), x), s[Len(s)])

RECURSIVE SortPackages(_)
SortPackages(s) ==
    IF s = <<>> THEN <<>>
    ELSE InsertPackage(SortPackages(SubSeq(s, 1, Len(s) - 1)), s[Len(s)])

\* The subdirectories of a directory, in the lexical order of filepath.WalkDir.
RECURSIVE SortedSeq(_)
SortedSeq(S) ==
    IF S = {} THEN <<>>
    ELSE LET least == CHOOSE x \in S : \A y \in S \ {x} : StrLess(x, y)
         IN  <<least>> \o SortedSeq(S \ {least})

ChildrenOf == [dir \in Dirs |-> SortedSeq({d \in Dirs : d # dir /\ PathDir(d) = dir})]

Children(dir) == ChildrenOf[dir]

\* WalkDir whose callback returns nil instead of fs.SkipDir: the excluded
\* directory is not parsed but the directories beneath it are visited.
RECURSIVE WalkDir_SkipOnly(_, _, _, _, _, _, _)
WalkDir_SkipOnly(st, gm, df, path, baseDir, opts, ord) ==
    LET Callback(parsed) ==
            IF \E i \in DOMAIN opts.ExcludeDirNames :
                  opts.ExcludeDirNames[i] = PathBase(path)
            THEN st
            ELSE IF parsed.err = ""
            THEN [pkgs |-> st.pkgs \o parsed.pkgs, err |-> "", cache |-> parsed.cache]
            ELSE IF parsed.err = ErrNoGoFiles THEN st
            ELSE [st EXCEPT !.err = parsed.err, !.cache = parsed.cache]
        Over[i \in 0..Len(Children(path))] ==
            IF i = 0
            THEN Callback(parseDir(gm, st.cache, path, df[path], "", baseDir, opts, ord))
            ELSE WalkDir_SkipOnly(Over[i - 1], gm, df, Children(path)[i], baseDir, opts, ord)
    IN  IF st.err # "" THEN st
        ELSE Over[Len(Children(path))]

\* filepath.WalkDir with the callback of Generate (generate.go:67-88), from
\* directory path on; st carries pkgs, the error that stopped the walk and
\* the locator's cache.
RECURSIVE WalkDir(_, _, _, _, _, _, _)
WalkDir(st, gm, df, path, baseDir, opts, ord) ==
    LET Callback(parsed) ==
            IF parsed.err = ""
            THEN [pkgs |-> st.pkgs \o parsed.pkgs, err |-> "", cache |-> parsed.cache]
            ELSE IF parsed.err = ErrNoGoFiles THEN st
            ELSE [st EXCEPT !.err = parsed.err, !.cache = parsed.cache]
        Over[i \in 0..Len(Children(path))] ==
            IF i = 0
            THEN Callback(parseDir(gm, st.cache, path, df[path], "", baseDir, opts, ord))
            ELSE WalkDir(Over[i - 1], gm, df, Children(path)[i], baseDir, opts, ord)
    IN  IF st.err # "" THEN st
        ELSE IF \E i \in DOMAIN opts.ExcludeDirNames : opts.ExcludeDirNames[i] = PathBase(path)
        THEN st
        ELSE Over[Len(Children(path))]

NilModel == [nil |-> TRUE, Root |-> "", Module |-> NilModule, Packages |-> <<>>]

Model(root, module, pkgs) ==
    [nil |-> FALSE, Root |-> root, Module |-> module, Packages |-> pkgs]

\* os.Stat(rootAbs).
IsDir(root) == root \in Dirs

IsFile(df, root) ==
    /\ root \notin Dirs
    /\ PathDir(root) \in Dirs
    /\ \E i \in DOMAIN df[PathDir(root)] : df[PathDir(root)][i].name = PathBase(root)

Generate(gm, df, root, opts0, ord) ==
    LET Return(rootModule, found) ==
            IF found.err # "" THEN [model |-> NilModel, err |-> found.err]
            ELSE [model |-> Model(root, rootModule, SortPackages(found.pkgs)), err |-> ""]
        Analyse(opts, baseDir, onlyFile, rootMod) ==
            IF rootMod.err THEN [model |-> NilModel, err |-> "no module path"]
            ELSE Return(rootMod.mod,
                        IF onlyFile # ""
                        THEN parseDir(gm, rootMod.cache, baseDir, df[baseDir], onlyFile,
                                      baseDir, opts, ord)
                        ELSE WalkDir([pkgs |-> <<>>, err |-> "", cache |-> rootMod.cache],
                                     gm, df, root, baseDir, opts, ord))
        Locate(baseDir, onlyFile) ==
            Analyse(withDefaults(opts0), baseDir, onlyFile,
                    moduleForDir(gm, newModuleLocator, baseDir))
    IN  IF ~IsDir(root) /\ ~IsFile(df, root) THEN [model |-> NilModel, err |-> "stat root"]
        ELSE IF IsDir(root) THEN Locate(root, "")
        ELSE Locate(PathDir(root), PathBase(root))

\* json.MarshalIndent(model, "", indent): the bytes are the model laid out
\* with the indent string.
NoBytes == [nil |-> TRUE, indent |-> "", model |-> NilModel]

MarshalIndent(model, indent) == [nil |-> FALSE, indent |-> indent, model |-> model]

GenerateJSON(gm, df, root, opts0, ord) ==
    LET Marshal(opts, gen) ==
            IF gen.err # "" THEN [data |-> NoBytes, err |-> gen.err]
            ELSE [data |-> MarshalIndent(gen.model, opts.Indent), err |-> ""]
        Defaulted(opts) == Marshal(opts, Generate(gm, df, root, opts, ord))
    IN  Defaulted(withDefaults(opts0))

----------------------------------------------------------------------------
(* Inputs of the extraction runs.                                          *)

Ident(n) == Node("Ident", n)

IntField == Member(<<"Y", "X">>, "int", FALSE)

\* Declarations that share names: two types A, two functions f, two methods m.
DeclPool ==
    { TypeSpec("A", FALSE, "StructType", <<IntField, Member(<<>>, "E", FALSE)>>),
      TypeSpec("A", TRUE, "Ident", <<>>),
      TypeSpec("B", FALSE, "InterfaceType", <<Member(<<"M">>, "s1", TRUE)>>),
      FuncDecl("f", <<>>, "s1"),
      FuncDecl("f", <<>>, "s2"),
      FuncDecl("m", <<Node("StarExpr", ""), Ident("A")>>, "s1"),
      FuncDecl("m", <<Ident("C")>>, "s2"),
      FuncDecl("g", <<Node("SelectorExpr", "A")>>, "s1") }

SeqsUpTo(S, n) == UNION {[1..m -> S] : m \in 0..n}

\* Receiver expressions: up to MaxNest unary nodes above a leaf.
UnaryNodes == {Node(op, "") : op \in Wrappers \cup {"ArrayType"}}

Leaves == {Ident("A"), Ident("C"), Node("SelectorExpr", "A")}

RecvExprs == {u \o <<l>> : u \in SeqsUpTo(UnaryNodes, MaxNest), l \in Leaves}

MemberPool ==
    { Member(<<"X">>, "int", FALSE), IntField, Member(<<>>, "E", FALSE),
      Member(<<"M">>, "s1", TRUE), Member(<<"M", "X">>, "s1", TRUE) }

Forms == {"StructType", "InterfaceType", "Ident", "FuncType"}

\* Only a struct or interface literal has a member list.
TypeSpecs ==
    { TypeSpec(n, a, f, m) :
        n \in {"A", "B"}, a \in BOOLEAN, f \in {"StructType", "InterfaceType"},
        m \in SeqsUpTo(MemberPool, MaxMembers) }
    \cup { TypeSpec(n, a, f, <<>>) : n \in {"A", "B"}, a \in BOOLEAN, f \in {"Ident", "FuncType"} }

FuncDecls == {FuncDecl("m", r, "s1") : r \in RecvExprs \cup {<<>>}}

\* The declarations every single-declaration run sits among: a struct A and a
\* method with the plain receiver A.
PlainMethod == FuncDecl("g", <<Ident("A")>>, "s2")

Context == <<TypeSpec("A", FALSE, "StructType", <<>>), PlainMethod>>

\* No file is offered to the filter.
IdleFilter ==
    /\ candidate = [file |-> File("", <<>>, TRUE, TRUE, "", <<>>), onlyFile |-> "",
                    opts |-> Options(FALSE, FALSE, <<>>, "")]
    /\ included = FALSE

\* The locator is not part of an extraction run.
IdleLocator ==
    /\ goMod = [d \in Dirs |-> NoGoMod]
    /\ cache = newModuleLocator
    /\ query = [dir |-> "", mod |-> NilModule, err |-> FALSE]

\* No GenerateJSON call is part of the run.
IdleGenerate ==
    /\ dirFiles = [d \in Dirs |-> <<>>]
    /\ request = [root |-> "", opts |-> Options(FALSE, FALSE, <<>>, "")]
    /\ result = [data |-> NoBytes, err |-> ""]

InitCommon ==
    /\ IdleLocator
    /\ IdleGenerate
    /\ IdleFilter
    /\ pc = "types"
    /\ pkgModel = NewPackage("p", "/p", "/p", "", FileList)
    /\ typesByName = NoTypes
    /\ todoTypes = FileNames
    /\ todoFuncs = FileNames

\* A package of up to MaxDecls declarations spread over the two files.
InitExtract ==
    /\ \E s \in SeqsUpTo(DeclPool, MaxDecls), k \in 0..MaxDecls :
          /\ k <= Len(s)
          /\ pkgFiles = [f \in FileNames |->
                           IF f = FileList[1] THEN SubSeq(s, 1, k)
                           ELSE SubSeq(s, k + 1, Len(s))]
    /\ InitCommon

\* One declaration of any shape in a.go, the context in b.go.
InitDecl ==
    /\ \E d \in TypeSpecs \cup FuncDecls :
          pkgFiles = [f \in FileNames |-> IF f = FileList[1] THEN <<d>> ELSE Context]
    /\ InitCommon

----------------------------------------------------------------------------
(* extractPackage and sortPackage, one file of a range loop at a time.  A   *)
(* Go map range visits every key once in an unspecified order, and the two *)
(* loops over pkg.Files need not agree on it.                              *)

ExtractTypes(f) ==
    /\ pc = "types"
    /\ f \in todoTypes
    /\ LET x == FileTypes(Extraction(pkgModel, typesByName), pkgFiles[f])
       IN  /\ pkgModel' = x.pkg
           /\ typesByName' = x.tbn
    /\ todoTypes' = todoTypes \ {f}
    /\ pc' = IF todoTypes' = {} THEN "funcs" ELSE "types"
    /\ UNCHANGED <<pkgFiles, todoFuncs, locVars, genVars, filterVars>>

ExtractFuncs(f) ==
    /\ pc = "funcs"
    /\ f \in todoFuncs
    /\ LET x == FileFuncs(Extraction(pkgModel, typesByName), pkgFiles[f])
       IN  /\ pkgModel' = x.pkg
           /\ typesByName' = x.tbn
    /\ todoFuncs' = todoFuncs \ {f}
    /\ pc' = IF todoFuncs' = {} THEN "sort" ELSE "funcs"
    /\ UNCHANGED <<pkgFiles, todoTypes, locVars, genVars, filterVars>>

SortPackage ==
    /\ pc = "sort"
    /\ pkgModel' = sortPackage(pkgModel)
    /\ pc' = "done"
    /\ UNCHANGED <<pkgFiles, typesByName, todoTypes, todoFuncs, locVars, genVars, filterVars>>

NextExtract ==
    \/ \E f \in FileNames : ExtractTypes(f)
    \/ \E f \in FileNames : ExtractFuncs(f)
    \/ SortPackage

SpecExtract == InitExtract /\ [][NextExtract]_vars

SpecDecl == InitDecl /\ [][NextExtract]_vars

----------------------------------------------------------------------------
(* A module locator queried any number of times over a fixed file system.  *)

GoModFiles ==
    { NoGoMod,
      GoModFile(<<"module example.com/m">>),
      GoModFile(<<"go 1.21", "  module\texample.com/n ">>),
      GoModFile(<<"go 1.21">>) }

\* No extraction runs beside the locator.
IdleExtract ==
    /\ pkgFiles = [f \in FileNames |-> <<>>]
    /\ pkgModel = NewPackage("", "/", "/", "", <<>>)
    /\ typesByName = NoTypes
    /\ todoTypes = {}
    /\ todoFuncs = {}

InitLoc ==
    /\ pc = "idle"
    /\ goMod \in [Dirs -> GoModFiles]
    /\ cache = newModuleLocator
    /\ query = [dir |-> "", mod |-> NilModule, err |-> FALSE]
    /\ IdleExtract
    /\ IdleGenerate
    /\ IdleFilter

ModuleForDir(dir) ==
    /\ pc \in {"idle", "queried"}
    /\ LET r == moduleForDir(goMod, cache, dir)
       IN  /\ cache' = r.cache
           /\ query' = [dir |-> dir, mod |-> r.mod, err |-> r.err]
    /\ pc' = "queried"
    /\ UNCHANGED <<goMod, extractVars, genVars, filterVars>>

NextLoc == \E dir \in Dirs : ModuleForDir(dir)

SpecLoc == InitLoc /\ [][NextLoc]_vars

----------------------------------------------------------------------------
(* One GenerateJSON call over a file system.                               *)

FooGo ==
    File("foo.go", <<"package foo">>, TRUE, TRUE, "foo",
         <<TypeSpec("T", FALSE, "StructType", <<>>), FuncDecl("m", <<Ident("T")>>, "s1")>>)

\* An external test package: its method names a type of package foo.
FooTestExternal ==
    File("foo_test.go", <<"package foo_test">>, TRUE, TRUE, "foo_test",
         <<FuncDecl("tm", <<Node("StarExpr", ""), Ident("T")>>, "s1")>>)

FooTestInternal ==
    File("foo_test.go", <<"package foo">>, TRUE, TRUE, "foo",
         <<FuncDecl("tm", <<Node("StarExpr", ""), Ident("T")>>, "s1")>>)

\* A second package name in a file that is not named as a test; its
\* declarations, members and embedded names are not in name order, and two
\* functions share a name.
AltGo ==
    File("alt.go", <<"package foo_test">>, TRUE, TRUE, "foo_test",
         <<FuncDecl("z", <<>>, "s1"),
           FuncDecl("am", <<Ident("T")>>, "s1"),
           FuncDecl("z", <<>>, "s2"),
           TypeSpec("C", FALSE, "StructType",
                    <<Member(<<"Y", "X">>, "int", FALSE), Member(<<>>, "E", FALSE),
                      Member(<<>>, "D", FALSE)>>),
           FuncDecl("n", <<Node("StarExpr", ""), Ident("C")>>, "s1"),
           TypeSpec("B", FALSE, "InterfaceType",
                    <<Member(<<"N">>, "s1", TRUE), Member(<<"M">>, "s1", TRUE),
                      Member(<<>>, "E", FALSE), Member(<<>>, "A", FALSE)>>),
           FuncDecl("a", <<Ident("C")>>, "s2")>>)

GenGo ==
    File("zz_gen.go", <<"// Code generated by tool. DO NOT EDIT.", "package foo">>,
         TRUE, TRUE, "foo", <<TypeSpec("C", FALSE, "Ident", <<>>)>>)

BadGo == File("bad.go", <<"package">>, TRUE, FALSE, "", <<>>)

Readme == File("README.md", <<"notes">>, TRUE, TRUE, "", <<>>)

\* What one directory may hold, each list in name order.
DirKinds ==
    { <<FooGo>>,
      <<FooGo, FooTestExternal>>,
      <<FooGo, FooTestInternal>>,
      <<AltGo, FooGo>>,
      <<BadGo, FooGo>>,
      <<Readme, GenGo>> }

WorkDirs == Dirs \ {"/"}

\* File systems in which at most MaxPopulated directories hold files.
Trees ==
    {df \in [Dirs -> DirKinds \cup {<<>>}] :
        /\ df["/"] = <<>>
        /\ Cardinality({d \in Dirs : df[d] # <<>>}) <= MaxPopulated}

FilePaths(df) == UNION {{PathJoin(d, df[d][i].name) : i \in DOMAIN df[d]} : d \in Dirs}

\* The roots a call may name: a directory, a file, a path that does not exist.
Roots(df) == WorkDirs \cup FilePaths(df) \cup {"/app/none"}

ModuleAtApp == [d \in Dirs |-> IF d = "/app" THEN GoModFile(<<"module example.com/m">>)
                               ELSE NoGoMod]

ExcludeLists == {<<>>, <<"pkg">>, <<"app", "lib">>}

\* Any files in a few directories, any filter options, the default exclusions.
InitFilter ==
    /\ dirFiles \in Trees
    /\ goMod = ModuleAtApp
    /\ \E root \in Roots(dirFiles), tests \in BOOLEAN, generated \in BOOLEAN :
          request = [root |-> root, opts |-> Options(tests, generated, <<>>, "  ")]

\* Packages in any of the directories, any exclusion list.
InitWalk ==
    /\ dirFiles \in {df \in [Dirs -> {<<>>, <<FooGo>>, <<BadGo, FooGo>>}] : df["/"] = <<>>}
    /\ goMod = ModuleAtApp
    /\ \E root \in Roots(dirFiles), exclude \in ExcludeLists :
          request = [root |-> root, opts |-> Options(FALSE, FALSE, exclude, "  ")]

\* One package per directory, any layout of go.mod files, any indent.
InitModule ==
    /\ dirFiles = [d \in Dirs |-> IF d = "/" THEN <<>> ELSE <<FooGo>>]
    /\ goMod \in {gm \in [Dirs -> GoModFiles] : gm["/"] \in {NoGoMod, GoModFile(<<"module example.com/m">>)}}
    /\ \E root \in Dirs \cup {"/app/pkg/foo.go"}, indent \in {"", "\t"} :
          request = [root |-> root, opts |-> Options(FALSE, FALSE, <<"testdata">>, indent)]

InitGen ==
    /\ pc = "call"
    /\ InitFilter \/ InitWalk \/ InitModule
    /\ result = [data |-> NoBytes, err |-> ""]
    /\ cache = newModuleLocator
    /\ query = [dir |-> "", mod |-> NilModule, err |-> FALSE]
    /\ IdleExtract
    /\ IdleFilter

\* Every range loop over a Go map in ascending key order, or every one in
\* descending key order.
Orders == {[types |-> r, funcs |-> r, pkgs |-> r] : r \in BOOLEAN}

CallGenerateJSON ==
    /\ pc = "call"
    /\ \E ord \in Orders :
          result' = GenerateJSON(goMod, dirFiles, request.root, request.opts, ord)
    /\ pc' = "returned"
    /\ UNCHANGED <<extractVars, locVars, dirFiles, request, filterVars>>

NextGen == CallGenerateJSON

SpecGen == InitGen /\ [][NextGen]_vars

----------------------------------------------------------------------------
(* The filter of parseDir offered one file.                                *)

\* Lines a file may hold.
HeaderLines ==
    { "// x",
      "// Code generated by tool. DO NOT EDIT.",
      "// DO NOT EDIT. Code generated by tool.",
      "// Code generated by tool.",
      "// DO NOT EDIT.",
      "// code generated by tool. do not edit." }

\* Files of 22 lines, two of which are header lines, and shorter files.
Contents ==
    { [i \in 1..22 |-> IF i = p THEN a ELSE IF i = q THEN b ELSE "package p"] :
          p \in {1, 20}, q \in {2, 19, 21}, a \in HeaderLines, b \in HeaderLines }
    \cup {<<>>, <<"// Code generated by tool. DO NOT EDIT.">>}

CandidateNames == {"a.go", "a_test.go", "_test.go", "a.txt", "a.go.bak", "go"}

InitCandidate ==
    /\ pc = "offer"
    /\ \E name \in CandidateNames, lines \in Contents, readable \in BOOLEAN,
          onlyFile \in {"", "a.go", "a_test.go"},
          tests \in BOOLEAN, generated \in BOOLEAN :
          candidate = [file     |-> File(name, lines, readable, TRUE, "p", <<>>),
                       onlyFile |-> onlyFile,
                       opts     |-> Options(tests, generated, <<>>, "")]
    /\ included = FALSE
    /\ IdleLocator
    /\ IdleGenerate
    /\ IdleExtract

Filter ==
    /\ pc = "offer"
    /\ included' = filter(candidate.file, candidate.onlyFile, candidate.opts)
    /\ pc' = "filtered"
    /\ UNCHANGED <<candidate, extractVars, locVars, genVars>>

NextCandidate == Filter

SpecCandidate == InitCandidate /\ [][NextCandidate]_vars

----------------------------------------------------------------------------
(* Properties of the extraction runs.                                      *)

\* The positions of the package's declarations: <<file, index>>.
DeclAt == UNION {{<<f, i>> : i \in DOMAIN pkgFiles[f]} : f \in FileNames}

DeclOf(p) == pkgFiles[p[1]][p[2]]

FuncDeclAt == {p \in DeclAt : DeclOf(p).decl = "func"}

TypeDeclAt == {p \in DeclAt : DeclOf(p).decl = "type"}

Declared(n) == \E p \in TypeDeclAt : DeclOf(p).name = n

\* extractPackage has returned.
Extracted == pc \in {"sort", "done"}

\* The positions <<type index, method index>> of the methods bound to types
\* named n (a method read from an interface body has no receiver text).
BoundAt(n) ==
    UNION {{<<i, j>> : j \in {k \in DOMAIN pkgModel.Types[i].Methods :
                                pkgModel.Types[i].Methods[k].Receiver # <<>>}} :
           i \in {k \in DOMAIN pkgModel.Types : pkgModel.Types[k].Name = n}}

BoundFn(q) == pkgModel.Types[q[1]].Methods[q[2]]

\* Where the claim sends a function declaration: "" is the Functions list,
\* any other value the name of the type whose Methods list receives it.
Destination(fn) ==
    IF fn.recv = <<>> THEN ""
    ELSE IF receiverBaseName(fn.recv) # "" /\ Declared(receiverBaseName(fn.recv))
    THEN receiverBaseName(fn.recv)
    ELSE ""

\* C1: for every order in which the two range loops visit the package's
\* files, extractPackage followed by sortPackage yields the Package that the
\* run visiting the files in ascending name order yields.
C1_FileOrderIndependent ==
    pc = "done" =>
        pkgModel = sortPackage(extractPackage(NewPackage("p", "/p", "/p", "", FileList),
                                              pkgFiles, FileList, FileList))

\* C3: once extractPackage has returned, every function declaration is in
\* the package exactly once: in Functions when it has no receiver or its
\* receiver base name is empty or names no declared type (its Receiver text
\* kept), otherwise in the Methods of exactly one Type of that name; and
\* nothing else is in those lists.
C3_EveryFunctionOnce ==
    Extracted =>
        /\ \A p \in FuncDeclAt :
              LET v    == FnModel(DeclOf(p))
                  same == {q \in FuncDeclAt : FnModel(DeclOf(q)) = v}
              IN  /\ Count(pkgModel.Functions, v)
                       = Cardinality({q \in same : Destination(DeclOf(q)) = ""})
                  /\ \A n \in TypeNames :
                        Cardinality({q \in BoundAt(n) : BoundFn(q) = v})
                          = Cardinality({q \in same : Destination(DeclOf(q)) = n})
        /\ Len(pkgModel.Functions)
             = Cardinality({q \in FuncDeclAt : Destination(DeclOf(q)) = ""})
        /\ \A n \in TypeNames :
              Cardinality(BoundAt(n))
                = Cardinality({q \in FuncDeclAt : Destination(DeclOf(q)) = n})
        /\ \A i \in DOMAIN pkgModel.Types : pkgModel.Types[i].Name \in TypeNames

\* A run in which one method was bound to a type and one method with an
\* unresolvable receiver fell back to Functions.
C3_Witness ==
    /\ pc = "done"
    /\ \E n \in TypeNames : BoundAt(n) # {}
    /\ \E i \in DOMAIN pkgModel.Functions : pkgModel.Functions[i].Receiver # <<>>

\* A receiver expression that is an identifier under pointer, generic
\* instantiation and parenthesis nodes only.
IsNesting(e) ==
    /\ e # <<>>
    /\ e[Len(e)].op = "Ident"
    /\ \A i \in 1..(Len(e) - 1) : e[i].op \in Wrappers

\* C4: receiverBaseName returns T for every nesting of pointer, generic
\* instantiation and parenthesis around the identifier T and "" for every
\* other shape; and when T is a declared type the method is in the Methods
\* list of the Type that holds the method declared with the plain receiver T.
C4_ReceiverUnwrapping ==
    \A p \in FuncDeclAt :
        LET fn == DeclOf(p)
        IN  fn.recv # <<>> =>
              /\ IsNesting(fn.recv) => receiverBaseName(fn.recv) = fn.recv[Len(fn.recv)].name
              /\ ~IsNesting(fn.recv) => receiverBaseName(fn.recv) = ""
              /\ (Extracted /\ IsNesting(fn.recv) /\ Declared(fn.recv[Len(fn.recv)].name)) =>
                    \E i \in DOMAIN pkgModel.Types :
                        /\ pkgModel.Types[i].Name = fn.recv[Len(fn.recv)].name
                        /\ Count(pkgModel.Types[i].Methods, FnModel(fn)) = 1
                        /\ Count(pkgModel.Types[i].Methods, FnModel(PlainMethod)) = 1

\* A method whose receiver nests a pointer, a parenthesis and a generic
\* instantiation around A sits beside the plain-receiver method.
C4_Witness ==
    /\ pc = "done"
    /\ \E i \in DOMAIN pkgModel.Types :
          /\ \E j \in DOMAIN pkgModel.Types[i].Methods :
                pkgModel.Types[i].Methods[j].Receiver = <<"*", "(", "A", "[", "K", "]", ")">>
          /\ \E j \in DOMAIN pkgModel.Types[i].Methods :
                pkgModel.Types[i].Methods[j].Receiver = <<"A">>

\* The Kind the claim gives a type declaration.
ClaimedKind(ts) ==
    CASE ts.assign                              -> "alias"
      [] ~ts.assign /\ ts.form = "StructType"    -> "struct"
      [] ~ts.assign /\ ts.form = "InterfaceType" -> "interface"
      [] OTHER                                  -> "other"

\* C7: after the first pass the Types are exactly the package's type
\* declarations, each with Kind alias when it is declared with "=", struct
\* or interface when a non-alias has a struct or interface body, and other
\* otherwise; no Kind is outside these four.
C7_KindClassification ==
    pc # "types" =>
        /\ Len(pkgModel.Types) = Cardinality(TypeDeclAt)
        /\ \A i \in DOMAIN pkgModel.Types :
              /\ pkgModel.Types[i].Kind \in {"struct", "interface", "alias", "other"}
              /\ Cardinality({j \in DOMAIN pkgModel.Types :
                                /\ pkgModel.Types[j].Name = pkgModel.Types[i].Name
                                /\ pkgModel.Types[j].Kind = pkgModel.Types[i].Kind})
                   = Cardinality({p \in TypeDeclAt :
                                    /\ DeclOf(p).name = pkgModel.Types[i].Name
                                    /\ ClaimedKind(DeclOf(p)) = pkgModel.Types[i].Kind})

\* An alias declared with a struct body was classified alias.
C7_Witness ==
    /\ pc = "done"
    /\ \E p \in TypeDeclAt :
          /\ DeclOf(p).assign
          /\ DeclOf(p).form = "StructType"
          /\ DeclOf(p).name = "B"
    /\ \E i \in DOMAIN pkgModel.Types :
          pkgModel.Types[i].Name = "B" /\ pkgModel.Types[i].Kind = "alias"

----------------------------------------------------------------------------
(* Properties of the module locator.                                       *)

\* The directories at or above dir.
AtOrAbove(dir) == {a \in Dirs : a = dir \/ a = "/" \/ HasPrefix(dir, a \o "/")}

\* The directories at or above dir that hold a go.mod file.
Holders(dir) == {a \in AtOrAbove(dir) : goMod[a].exists}

Nearest(dir) == CHOOSE a \in Holders(dir) : \A b \in Holders(dir) : Len(b) <= Len(a)

\* The directory at which the last query stopped climbing.
ResolvedAt == IF query.mod = NilModule THEN "/" ELSE query.mod.Dir

CacheNeverRewritten ==
    \A d \in Dirs : cache[d] # NotCached => cache'[d] = cache[d]

QueryMatchesFileSystem ==
    pc = "queried" =>
        /\ Holders(query.dir) = {} => ~query.err /\ query.mod = NilModule
        /\ Holders(query.dir) # {} =>
              LET near == Nearest(query.dir)
                  decl == readModulePath(goMod[near].lines)
              IN  /\ query.err = decl.err
                  /\ ~decl.err => query.mod = Module(decl.path, near)
        /\ query.err = moduleForDir(goMod, newModuleLocator, query.dir).err
        /\ query.mod = moduleForDir(goMod, newModuleLocator, query.dir).mod
        /\ ~query.err =>
              \A a \in AtOrAbove(query.dir) :
                  Len(a) >= Len(ResolvedAt) => cache[a] = query.mod

\* C10: over an unchanged file system every moduleForDir query returns what an
\* uncached lookup returns (the module of the nearest go.mod at or above the
\* directory, nil when there is none, an error when that go.mod has no module
\* line); a cache entry once written never changes; and after a successful
\* query the whole chain from the queried directory up to the resolving one
\* holds the result.
C10_LocatorMemoization == [](QueryMatchesFileSystem) /\ [][CacheNeverRewritten]_vars

\* A query answered from the cache: its directory was cached by an earlier
\* query on a directory below it, and the module is declared with a tab.
C10_Witness ==
    /\ pc = "queried"
    /\ query.dir = "/app/vendor"
    /\ query.mod = Module("example.com/n", "/app")
    /\ cache["/app/vendor/lib"] = query.mod
    /\ cache["/app/pkg"] = NotCached

----------------------------------------------------------------------------
(* Properties of Generate and GenerateJSON.                                *)

Returned == pc = "returned"

Succeeded == Returned /\ result.err = ""

\* The options in effect: the caller's with the defaults filled in.
Effective == withDefaults(request.opts)

ExcludedName(d) ==
    \E i \in DOMAIN Effective.ExcludeDirNames : Effective.ExcludeDirNames[i] = PathBase(d)

RootIsDir == IsDir(request.root)

BaseDir == IF RootIsDir THEN request.root ELSE PathDir(request.root)

\* The Packages of the returned Model, as a set.
Packages ==
    IF Succeeded
    THEN {result.data.model.Packages[i] : i \in DOMAIN result.data.model.Packages}
    ELSE {}

\* The directory a Package was read from.
PkgDir(p) == CHOOSE d \in Dirs : toRelPath(BaseDir, d) = p.Dir

\* The directories from the root down to d, both included.
FromRootTo(d) == {a \in AtOrAbove(d) : request.root \in AtOrAbove(a)}

\* C2 (as stated): whatever the root, no Package comes from a directory whose
\* name is in the effective exclusion set, nor from a directory beneath one.
C2_ExcludedContributesNothing ==
    \A p \in Packages : \A a \in AtOrAbove(PkgDir(p)) : ~ExcludedName(a)

\* C2 (amended): when the root is a directory, no Package comes from a
\* directory at or beneath the root whose name is in the effective exclusion
\* set, nor from a directory beneath such a directory; this includes the root
\* itself.  The directories above the root and the directory of a single-file
\* root are not examined.
C2_WalkPrunesExcluded ==
    Succeeded /\ RootIsDir =>
        \A p \in Packages : \A a \in FromRootTo(PkgDir(p)) : ~ExcludedName(a)

\* The walk passed over an excluded directory and the one beneath it, both
\* holding a valid file, and returned the Package of the root.
C2_Witness ==
    /\ Succeeded /\ RootIsDir
    /\ Packages # {}
    /\ \E a, b \in Dirs :
          /\ a # request.root /\ request.root \in AtOrAbove(a)
          /\ PathDir(b) = a /\ b # a
          /\ ExcludedName(a) /\ ~ExcludedName(b)
          /\ dirFiles[a] = <<FooGo>> /\ dirFiles[b] = <<FooGo>>

\* The file a single-file root names.
RootFile ==
    CHOOSE f \in {dirFiles[BaseDir][i] : i \in DOMAIN dirFiles[BaseDir]} :
        f.name = PathBase(request.root)

\* C5 (as stated): Generate never returns the "no Go files" error; when the
\* root is a single file that the filter rejects, it returns a Model without
\* Packages.
C5_NoEligibleFilesIsNotAnError ==
    Returned =>
        /\ result.err # ErrNoGoFiles
        /\ IsFile(dirFiles, request.root)
           /\ ~filter(RootFile, PathBase(request.root), Effective)
              => result.err = "" /\ result.data.model.Packages = <<>>

\* C6 (as stated): the bytes GenerateJSON returns are laid out with the indent
\* string the caller supplied.
C6_IndentAsSupplied ==
    Succeeded => result.data.indent = request.opts.Indent

\* The module path a go.mod file of the model declares.
ModulePathIn(a) ==
    IF goMod[a] = GoModFile(<<"module example.com/m">>) THEN "example.com/m"
    ELSE IF goMod[a] = GoModFile(<<"go 1.21", "  module\texample.com/n ">>)
    THEN "example.com/n"
    ELSE ""

\* The slash-separated path of d relative to a directory a above it.
RelPath(a, d) ==
    IF a = "/" THEN SubSeq(d, 2, Len(d)) ELSE SubSeq(d, Len(a) + 2, Len(d))

\* C8: the ImportPath of a Package read from directory d is the module path
\* of the nearest go.mod at or above d when that go.mod lies in d, that
\* module path followed by "/" and the path of d relative to the go.mod's
\* directory when it lies above d, and "" when no directory at or above d
\* holds a go.mod; of nested modules the innermost one counts.
C8_ImportPathFromNearestModule ==
    \A p \in Packages :
        LET d == PkgDir(p)
        IN  IF Holders(d) = {} THEN p.ImportPath = ""
            ELSE IF Nearest(d) = d THEN p.ImportPath = ModulePathIn(d)
            ELSE p.ImportPath = ModulePathIn(Nearest(d)) \o "/" \o RelPath(Nearest(d), d)

\* Nested modules: a Package two levels below the outer module and one level
\* below the inner one takes the inner module's path.
C8_Witness ==
    /\ Succeeded
    /\ goMod["/app"].exists /\ goMod["/app/vendor"].exists
    /\ ~goMod["/app/vendor/lib"].exists
    /\ \E p \in Packages :
          /\ PkgDir(p) = "/app/vendor/lib"
          /\ p.ImportPath = "example.com/n/lib"
    /\ \E p \in Packages : PkgDir(p) = "/app" /\ p.ImportPath = "example.com/m"

\* The directories the run reads files from.
Visited(d) ==
    IF RootIsDir
    THEN request.root \in AtOrAbove(d) /\ \A a \in FromRootTo(d) : ~ExcludedName(a)
    ELSE d = BaseDir

\* The files of d that pass the filter.
Kept(d) ==
    {f \in {dirFiles[d][i] : i \in DOMAIN dirFiles[d]} :
        filter(f, IF RootIsDir THEN "" ELSE PathBase(request.root), Effective)}

PackagesIn(d) == {p \in Packages : PkgDir(p) = d}

\* The declarations of the kept files of d that declare package name.
DeclsOf(d, name, kind) ==
    UNION {{f.decls[i] : i \in {j \in DOMAIN f.decls : f.decls[j].decl = kind}} :
              f \in {g \in Kept(d) : g.pkg = name}}

\* The methods bound to the Types of p by their receivers (a method read
\* from an interface body has no receiver text).
MethodsOf(p) ==
    UNION {{<<p.Types[i].Name, p.Types[i].Methods[j].Name>> :
               j \in {k \in DOMAIN p.Types[i].Methods : p.Types[i].Methods[k].Receiver # <<>>}} :
           i \in DOMAIN p.Types}

----------------------------------------------------------------------------
(* Properties of the file filter.                                          *)

Filtered == pc = "filtered"

\* The name rules: the .go suffix, the single-file name, the test suffix.
NameAdmitted ==
    /\ HasSuffix(candidate.file.name, ".go")
    /\ candidate.onlyFile # "" => candidate.file.name = candidate.onlyFile
    /\ ~candidate.opts.IncludeTests => ~HasSuffix(candidate.file.name, "_test.go")

\* The first 20 lines of the candidate.
Header ==
    {candidate.file.lines[i] : i \in {j \in DOMAIN candidate.file.lines : j <= 20}}

\* C11 (as stated): the file is included iff the name rules admit it and,
\* unless generated-inclusion is on, its first 20 lines do not contain both
\* "Code generated" and "DO NOT EDIT"; a file that cannot be read counts as
\* not generated.
C11_FilterByRuleList ==
    Filtered =>
        (included <=>
            /\ NameAdmitted
            /\ ~candidate.opts.IncludeGenerated =>
                  ~(/\ candidate.file.readable
                    /\ \E l \in Header : Contains(l, "Code generated")
                    /\ \E l \in Header : Contains(l, "DO NOT EDIT")))

\* C11 (amended): the file is included iff the name rules admit it and,
\* unless generated-inclusion is on, none of its first 20 lines contains both
\* "Code generated" and "DO NOT EDIT" on that one line; lines after the 20th
\* do not count and a file that cannot be read stays included.
C11_FilterByRuleListOneLine ==
    Filtered =>
        (included <=>
            /\ NameAdmitted
            /\ ~candidate.opts.IncludeGenerated =>
                  ~(/\ candidate.file.readable
                    /\ \E l \in Header :
                          Contains(l, "Code generated") /\ Contains(l, "DO NOT EDIT")))

\* A file kept although line 21 carries the whole marker and line 20 one of
\* the two phrases.
C11_Witness ==
    /\ Filtered /\ included
    /\ ~candidate.opts.IncludeGenerated
    /\ candidate.file.readable
    /\ Len(candidate.file.lines) = 22
    /\ candidate.file.lines[21] = "// Code generated by tool. DO NOT EDIT."
    /\ candidate.file.lines[20] = "// DO NOT EDIT."

----------------------------------------------------------------------------
(* Properties of the order of a returned Model.                            *)

\* No element of a list of strings is below its predecessor.
Ascending(names) ==
    \A i \in 1..(Len(names) - 1) : ~StrLess(names[i + 1], names[i])

NamesOf(list) == [i \in DOMAIN list |-> list[i].Name]

\* The sort key of a Package.
KeyOf(p) == <<p.ImportPath, p.Dir, p.Name>>

KeyLess(a, b) ==
    \/ StrLess(a[1], b[1])
    \/ a[1] = b[1] /\ StrLess(a[2], b[2])
    \/ a[1] = b[1] /\ a[2] = b[2] /\ StrLess(a[3], b[3])

\* C12: in a returned Model the Files, Functions and Types of every Package
\* and the Fields, Embedded names and Methods of every Type ascend by name
\* in byte order, and the Packages strictly ascend by (ImportPath, Dir,
\* Name), so no two share that key.
C12_ModelIsOrdered ==
    Succeeded =>
        LET pkgs == result.data.model.Packages
        IN  /\ \A i \in 1..(Len(pkgs) - 1) : KeyLess(KeyOf(pkgs[i]), KeyOf(pkgs[i + 1]))
            /\ \A i \in DOMAIN pkgs :
                  /\ Ascending(pkgs[i].Files)
                  /\ Ascending(NamesOf(pkgs[i].Functions))
                  /\ Ascending(NamesOf(pkgs[i].Types))
                  /\ \A j \in DOMAIN pkgs[i].Types :
                        /\ Ascending(NamesOf(pkgs[i].Types[j].Fields))
                        /\ Ascending(pkgs[i].Types[j].Embedded)
                        /\ Ascending(NamesOf(pkgs[i].Types[j].Methods))

\* A Model of three or more Packages, two of them from one directory, one of
\* which holds several functions, two types, and a type with two fields, two
\* embedded names and two methods, all declared out of order.
C12_Witness ==
    /\ Succeeded
    /\ Len(result.data.model.Packages) >= 3
    /\ \E p, q \in Packages :
          /\ p # q /\ p.Dir = q.Dir
          /\ Len(p.Functions) >= 3 /\ Len(p.Types) = 2 /\ Len(p.Files) = 1
          /\ \E j \in DOMAIN p.Types :
                /\ NamesOf(p.Types[j].Fields) = <<"X", "Y">>
                /\ p.Types[j].Embedded = <<"D", "E">>
                /\ NamesOf(p.Types[j].Methods) = <<"a", "n">>

----------------------------------------------------------------------------
(* Properties of the errors of Generate.                                   *)

RootExists == RootIsDir \/ IsFile(dirFiles, request.root)

\* The nearest go.mod at or above d declares no module path.
ModuleFails(d) == Holders(d) # {} /\ ModulePathIn(Nearest(d)) = ""

\* A file of d that passes the filter does not parse.
ParseFails(d) == \E f \in Kept(d) : ~f.parses

\* The failures of a run: the root cannot be inspected, the module of the
\* base directory or of a directory with eligible files cannot be resolved,
\* or a directory of the run holds an eligible file that does not parse.
Failure ==
    \/ ~RootExists
    \/ ModuleFails(BaseDir)
    \/ \E d \in Dirs : Visited(d) /\ (ParseFails(d) \/ (Kept(d) # {} /\ ModuleFails(d)))

\* C13 (as stated): after a failure GenerateJSON returns an error and no
\* bytes, whatever was extracted before; without a failure it returns the
\* bytes of a Model and no error.
C13_AllOrNothing ==
    Returned =>
        IF Failure
        THEN result.err # "" /\ result.data = NoBytes
        ELSE result.err = "" /\ ~result.data.nil /\ ~result.data.model.nil

----------------------------------------------------------------------------
(* Properties of the members of a Type.                                    *)

\* The names and the embedded type texts a struct declaration lists.
NamedIn(ts) ==
    UNION {{ts.members[k].names[n] : n \in DOMAIN ts.members[k].names} :
              k \in DOMAIN ts.members}

UnnamedIn(ts) ==
    {ts.members[k].type : k \in {j \in DOMAIN ts.members : ts.members[j].names = <<>>}}

\* C14 (as stated): a Type has Fields only if its Kind is struct and
\* Embedded names only if its Kind is struct or interface, so a Type of Kind
\* alias or other has neither, whatever the declaration's right-hand side;
\* the unnamed members of a struct declaration are in the Embedded list of
\* its Type by their type text and its Fields are the named members only.
C14_MembersByKind ==
    /\ \A i \in DOMAIN pkgModel.Types :
          LET t == pkgModel.Types[i]
          IN  /\ t.Fields # <<>> => t.Kind = "struct"
              /\ t.Embedded # <<>> => t.Kind \in {"struct", "interface"}
              /\ t.Kind \in {"alias", "other"} => t.Fields = <<>> /\ t.Embedded = <<>>
    /\ pc = "done" =>
          \A p \in TypeDeclAt :
              DeclOf(p).form = "StructType" =>
                 \E i \in DOMAIN pkgModel.Types :
                    LET t == pkgModel.Types[i]
                    IN  /\ t.Name = DeclOf(p).name
                        /\ {t.Embedded[k] : k \in DOMAIN t.Embedded} = UnnamedIn(DeclOf(p))
                        /\ {t.Fields[k].Name : k \in DOMAIN t.Fields} = NamedIn(DeclOf(p))

----------------------------------------------------------------------------
(* Properties of the two passes of extractPackage.                         *)

\* While extractPackage runs, an index stored in typesByName is the position
\* of a Type of that name, and after the first pass every declared name has
\* one.
IndexSound ==
    pc \in {"types", "funcs", "sort"} =>
        \A n \in TypeNames :
            /\ typesByName[n] # 0 =>
                  /\ typesByName[n] \in DOMAIN pkgModel.Types
                  /\ pkgModel.Types[typesByName[n]].Name = n
            /\ pc # "types" /\ Declared(n) => typesByName[n] # 0

\* No function is processed during the first pass, and every type
\* declaration of every file is recorded when it ends.
TypesFirst ==
    /\ pc = "types" =>
          /\ pkgModel.Functions = <<>>
          /\ \A n \in TypeNames : BoundAt(n) = {}
    /\ pc # "types" => Len(pkgModel.Types) = Cardinality(TypeDeclAt)

\* A step of the second pass only appends to Methods and Functions.
TypesKeptByFuncs ==
    pc = "funcs" =>
        /\ typesByName' = typesByName
        /\ Len(pkgModel'.Types) = Len(pkgModel.Types)
        /\ \A i \in DOMAIN pkgModel.Types :
              [pkgModel'.Types[i] EXCEPT !.Methods = <<>>]
                 = [pkgModel.Types[i] EXCEPT !.Methods = <<>>]

\* Every method whose receiver names a declared type is among the Methods of
\* a Type of that name.
BoundWhereverDeclared ==
    pc = "done" =>
        \A p \in FuncDeclAt :
            Destination(DeclOf(p)) # "" =>
                \E q \in BoundAt(Destination(DeclOf(p))) : BoundFn(q) = FnModel(DeclOf(p))

\* C15: every type declaration of every file is recorded before a function
\* declaration is processed; while functions are processed the Types list
\* is neither appended to nor reordered and typesByName does not change, so
\* a stored index is always the position of a Type of that name; hence a
\* method is bound to a Type of its receiver's name wherever the type is
\* declared, before or after it, in its file or in another.
C15_TypesBeforeFunctions ==
    [](IndexSound /\ TypesFirst /\ BoundWhereverDeclared) /\ [][TypesKeptByFuncs]_vars

\* The method is the first declaration of a.go, its type is declared in
\* b.go, the second loop visited a.go first, and the method is bound.
C15_Witness ==
    /\ pc = "done"
    /\ pkgFiles["a.go"] # <<>> /\ pkgFiles["b.go"] # <<>>
    /\ pkgFiles["a.go"][1].decl = "func"
    /\ Destination(pkgFiles["a.go"][1]) = "A"
    /\ \A i \in DOMAIN pkgFiles["a.go"] : pkgFiles["a.go"][i].decl = "func"
    /\ \E i \in DOMAIN pkgFiles["b.go"] :
          pkgFiles["b.go"][i].decl = "type" /\ pkgFiles["b.go"][i].name = "A"
    /\ \E q \in BoundAt("A") : BoundFn(q) = FnModel(pkgFiles["a.go"][1])

====
